---------------------------- MODULE Spec2Model ----------------------------
(***************************************************************************)
(* A model of geoserver-node-client: the facade, the AboutClient, the      *)
(* WorkspaceClient, NamespaceClient, DatastoreClient and SettingsClient,   *)
(* their HTTP requests, and the classification of the responses.  The      *)
(* remote GeoServer and the network are the environment.                   *)
(***************************************************************************)
EXTENDS Integers, Sequences, FiniteSets, TLC

VARIABLES
  ctor,        \* the arguments the facade was constructed with
  facade,      \* GeoServerRestClient: its url and auth fields
  clients,     \* the url and auth fields of each resource client
  call,        \* the caller's operation in flight: its requests, responses, result
  net,         \* "up": requests reach the endpoint; "down": fetch rejects
  srvItems,    \* the server's workspaces, namespaces and stores
  srvSettings, \* the server's global settings
  trip,        \* the workspace round trip of the test suite: its step and listings
  fs,          \* the local files: their sizes, and the read stream of the upload
  seen,        \* the first request of each invocation that ended, with its arguments
  other        \* a second operation in flight on the same facade

vars == <<ctor, facade, clients, call, net, srvItems, srvSettings, trip, fs, seen, other>>

(***************************************************************************)
(* Bounds of the model.                                                    *)
(***************************************************************************)
\* The server holds at most this many items; a create beyond it is refused.
MaxItems == 2

WsNames == {"w1", "w2"}
NsNames == {"n1", "n2"}
StoreNames == {"s1"}
\* Store operations of the model work in this workspace.
StoreWs == "w1"
StoreTypes == {"datastores", "coveragestores", "wmsstores", "wmtsstores"}
NameOrder == <<"n1", "n2", "s1", "w1", "w2">>
\* The endpoint a GeoServer answers on.
ValidBase == <<"g", "/">>
Files == {"geo.tif"}
\* The sizes in bytes a file may have.
FileSizes == {2, 3}
MissingFile == "none.tif"
ProxyUrls == {"p0", "p1"}

(***************************************************************************)
(* JavaScript values and outcomes.                                         *)
(***************************************************************************)
Undefined == [t |-> "undefined"]
Str(s) == [t |-> "string", s |-> s]
Obj(p) == [t |-> "object", p |-> p]
\* A decoded JSON value that is falsy in JavaScript: null, false, 0 or "".
FalsyKinds == {"null", "false", "zero", "emptyString"}
\* A truth test that also takes {} and [] for false.
Truthy_nonEmpty(v) ==
  ~(v.t = "undefined"
    \/ (v.t = "object" /\ v.p.kind \in FalsyKinds \cup {"emptyObject", "emptyArray"}))

\* !!v
Truthy(v) == ~(v.t = "undefined" \/ (v.t = "object" /\ v.p.kind \in FalsyKinds))

Return(v) == [kind |-> "return", value |-> v]
Throw(e) == [kind |-> "throw", error |-> e]

\* The errors of the transport (node-fetch) and of the runtime.
FetchError(what) == [name |-> "FetchError", message |-> what, geoServerOutput |-> Undefined]
TypeError(what) == [name |-> "TypeError", message |-> what, geoServerOutput |-> Undefined]
FsError(what) == [name |-> "Error", message |-> what, geoServerOutput |-> Undefined]

Last(s) == s[Len(s)]

(***************************************************************************)
(* src/util/geoserver.ts                                                   *)
(***************************************************************************)
\* response.text(): the body's text, or a rejection when the body cannot be read.
response_text(r) ==
  IF r.readable THEN Return(Str(r.text)) ELSE Throw(FetchError("body"))

\* response.json(): the decoded body, or a rejection when it cannot be read or decoded.
response_json(r) ==
  IF ~r.readable THEN Throw(FetchError("body"))
  ELSE IF r.fmt # "json" THEN Throw(FetchError("invalid-json"))
  ELSE Return(Obj(r.payload))

\* try { return response.text() } catch (e) {}: the promise is returned without
\* await, so its rejection passes the catch block.
getGeoServerResponseText(r) == response_text(r)

null == "null"
GeoServerResponseError(message, geoServerOutput) ==
  [name |-> "GeoServerResponseError",
   message |-> IF message = null \/ message = "" THEN "GeoServer Response Error" ELSE message,
   geoServerOutput |-> geoServerOutput]

\* const t = await getGeoServerResponseText(response); throw new GeoServerResponseError(message, t)
ThrowResponseError(message, r) ==
  LET t == getGeoServerResponseText(r)
  IN IF t.kind = "throw" THEN t ELSE Throw(GeoServerResponseError(message, t.value))


(***************************************************************************)
(* Requests, responses and the steps of an async operation.                *)
(***************************************************************************)
NoHeader == "none"
NoBody == [kind |-> "none"]
Req(method, url, auth, ctype, clen, body) ==
  [method |-> method, url |-> url, Authorization |-> auth,
   ContentType |-> ctype, ContentLength |-> clen, body |-> body]

\* response.ok of node-fetch: a status in 200..299.
ok(r) == r.status >= 200 /\ r.status < 300

\* fetch(url, ...) that rejects: the transport's error.
Rejected == [kind |-> "rejected"]
IsRejected(r) == r.kind = "rejected"

\* An operation either awaits a further fetch or settles with an outcome.
Fetch(req) == [next |-> "fetch", req |-> req]
Done(outcome) == [next |-> "done", outcome |-> outcome]

Bool(b) == [t |-> "boolean", b |-> b]

\* JSON.stringify of a request body: a property or an entry's "$" whose value is
\* undefined is left out.
JSON_stringify(body) ==
  [kind |-> "json", root |-> body.root,
   props |-> SelectSeq(body.props, LAMBDA f : f.v # "undefined"),
   entries |-> [i \in 1..Len(body.entries) |->
                  [key |-> body.entries[i].key,
                   dollar |-> IF body.entries[i].v = "undefined" THEN <<>>
                              ELSE <<body.entries[i].v>>]]]

\* a || b of JavaScript on the model's values.
JsOr(a, b) == IF a \in {"undefined", "false", "null", "0", ""} THEN b ELSE a
\* A parameter with a default value: the default replaces undefined only.
JsDefault(a, d) == IF a = "undefined" THEN d ELSE a

(***************************************************************************)
(* The facade: GeoServerRestClient (src/test/test.js, lines 385 to 431).   *)
(***************************************************************************)
\* Buffer.from(bytes).toString('base64'): sextets 0..63, and 64 for the padding "=".
RECURSIVE Base64(_)
Base64(b) ==
  IF Len(b) = 0 THEN <<>>
  ELSE IF Len(b) = 1 THEN <<b[1] \div 4, (b[1] % 4) * 16, 64, 64>>
  ELSE IF Len(b) = 2
    THEN <<b[1] \div 4, (b[1] % 4) * 16 + b[2] \div 16, (b[2] % 16) * 4, 64>>
  ELSE <<b[1] \div 4, (b[1] % 4) * 16 + b[2] \div 16,
         (b[2] % 16) * 4 + b[3] \div 64, b[3] % 64>>
       \o Base64(SubSeq(b, 4, Len(b)))

\* url.endsWith('/')
endsWith(url, ch) == Len(url) > 0 /\ url[Len(url)] = ch

ClientNames == {"layers", "styles", "workspaces", "namespaces", "datastores",
                "imagemosaics", "security", "settings", "about", "resetReload"}

\* A normalisation that appends the separator to every url.
FacadeUrl_alwaysAppend(url) == url \o <<"/">>

\* this.url = url.endsWith('/') ? url : url + '/'
FacadeUrl(url) == IF endsWith(url, "/") THEN url ELSE url \o <<"/">>

\* this.auth = 'Basic ' + Buffer.from(user + ':' + password).toString('base64')
FacadeAuth(user, password) ==
  [scheme |-> "Basic ", token |-> Base64(user \o <<58>> \o password)]

GeoServerRestClient(url, user, password) ==
  [url |-> FacadeUrl(url), auth |-> FacadeAuth(user, password)]

\* A client constructor that normalises the url once more on its own.
NewClient_ownUrl(url, auth) == [url |-> url \o <<"/">>, auth |-> auth]

\* new XClient(this.url, this.auth): every client keeps the two values.
NewClient(url, auth) == [url |-> url, auth |-> auth]

(***************************************************************************)
(* AboutClient (src/unnamed/part_000).                                     *)
(***************************************************************************)
AboutClient_getVersion_fetch(this) ==
  Req("GET", this.url \o <<"about/version.json">>, this.auth, NoHeader, NoHeader, NoBody)

AboutClient_getVersion_then(r) ==
  IF IsRejected(r) THEN Throw(FetchError("network"))
  ELSE IF ~ok(r) THEN ThrowResponseError(null, r)
  ELSE response_json(r)

\* exists without its try and catch: the error of getVersion passes.
AboutClient_exists_then_nocatch(r) ==
  LET versionInfo == AboutClient_getVersion_then(r)
  IN IF versionInfo.kind = "throw" THEN versionInfo
     ELSE Return(Bool(Truthy(versionInfo.value)))

\* try { versionInfo = await this.getVersion(); return !!versionInfo } catch { return false }
AboutClient_exists_then(r) ==
  LET versionInfo == AboutClient_getVersion_then(r)
  IN IF versionInfo.kind = "throw" THEN Return(Bool(FALSE))
     ELSE Return(Bool(Truthy(versionInfo.value)))

(***************************************************************************)
(* The pattern of the operations that issue one request and raise on a     *)
(* status that is not ok.                                                  *)
(***************************************************************************)
\* if (!response.ok) { throw new GeoServerResponseError(null, text) } return response.json()
JsonOrThrow(r) ==
  IF IsRejected(r) THEN Throw(FetchError("network"))
  ELSE IF ~ok(r) THEN ThrowResponseError(null, r)
  ELSE response_json(r)

\* the same, ending in return response.text()
TextOrThrow(r) ==
  IF IsRejected(r) THEN Throw(FetchError("network"))
  ELSE IF ~ok(r) THEN ThrowResponseError(null, r)
  ELSE response_text(r)

\* the same, with no return statement: the promise resolves to undefined
VoidOrThrow(r) ==
  IF IsRejected(r) THEN Throw(FetchError("network"))
  ELSE IF ~ok(r) THEN ThrowResponseError(null, r)
  ELSE Return(Undefined)

(***************************************************************************)
(* WorkspaceClient (src/src/workspace.ts).                                 *)
(***************************************************************************)
\* getAll reading the listing of the namespaces.
WorkspaceClient_getAll_fetch_namespaces(this) ==
  Req("GET", this.url \o <<"namespaces.json">>, this.auth, NoHeader, NoHeader, NoBody)

WorkspaceClient_getAll_fetch(this) ==
  Req("GET", this.url \o <<"workspaces.json">>, this.auth, NoHeader, NoHeader, NoBody)

WorkspaceClient_getAll_then(r) == JsonOrThrow(r)

WorkspaceClient_get_fetch(this, name) ==
  Req("GET", this.url \o <<"workspaces/", name, ".json">>, this.auth, NoHeader, NoHeader, NoBody)

\* get probing after every response, whatever its status.
WorkspaceClient_get_then_probeAlways(this, r) ==
  IF IsRejected(r) THEN Done(Throw(FetchError("network")))
  ELSE Fetch(AboutClient_getVersion_fetch(NewClient(this.url, this.auth)))

WorkspaceClient_get_then(this, r) ==
  IF IsRejected(r) THEN Done(Throw(FetchError("network")))
  ELSE IF ~ok(r) THEN Fetch(AboutClient_getVersion_fetch(NewClient(this.url, this.auth)))
  ELSE Done(response_json(r))

\* get taking only a 404 for a missing item.
WorkspaceClient_get_afterExists_only404(r, probe) ==
  LET exists == AboutClient_exists_then(probe)
  IN IF exists.kind = "throw" THEN exists
     ELSE IF exists.value.b /\ r.status = 404 THEN Return(Undefined)
     ELSE ThrowResponseError(null, r)

WorkspaceClient_get_afterExists(r, probe) ==
  LET exists == AboutClient_exists_then(probe)
  IN IF exists.kind = "throw" THEN exists
     ELSE IF exists.value.b THEN Return(Undefined)
     ELSE ThrowResponseError(null, r)

\* create on a client that remembers its earlier invocations and marks a repeat.
WorkspaceClient_create_fetch_marked(this, name) ==
  Req("POST", this.url \o (IF seen = {} THEN <<"workspaces">> ELSE <<"workspaces", "?again">>),
      this.auth, "application/json", NoHeader,
      JSON_stringify([root |-> "workspace", props |-> <<[k |-> "name", v |-> name]>>,
                      entries |-> <<>>]))

WorkspaceClient_create_fetch(this, name) ==
  Req("POST", this.url \o <<"workspaces">>, this.auth, "application/json", NoHeader,
      JSON_stringify([root |-> "workspace", props |-> <<[k |-> "name", v |-> name]>>,
                      entries |-> <<>>]))

\* create ending without a return statement.
WorkspaceClient_create_then_void(r) ==
  IF IsRejected(r) THEN Throw(FetchError("network"))
  ELSE IF ~ok(r)
    THEN IF r.status = 409
           THEN ThrowResponseError("Unable to add workspace as it already exists", r)
           ELSE ThrowResponseError(null, r)
  ELSE Return(Undefined)

WorkspaceClient_create_then(r) ==
  IF IsRejected(r) THEN Throw(FetchError("network"))
  ELSE IF ~ok(r)
    THEN IF r.status = 409
           THEN ThrowResponseError("Unable to add workspace as it already exists", r)
           ELSE ThrowResponseError(null, r)
  ELSE response_text(r)

WorkspaceClient_delete_fetch(this, name, recurse) ==
  Req("DELETE", this.url \o <<"workspaces/", name, "?recurse=", recurse>>, this.auth,
      NoHeader, NoHeader, NoBody)

WorkspaceClient_delete_then(r) ==
  IF IsRejected(r) THEN Throw(FetchError("network"))
  ELSE IF ~ok(r)
    THEN IF r.status = 400
           THEN ThrowResponseError("Workspace or related Namespace is not empty (and recurse not true)", r)
         ELSE IF r.status = 404 THEN ThrowResponseError("Workspace doesn't exist", r)
         ELSE ThrowResponseError(null, r)
  ELSE Return(Undefined)

(***************************************************************************)
(* NamespaceClient (src/src/namespace.ts).                                 *)
(***************************************************************************)
NamespaceClient_getAll_fetch(this) ==
  Req("GET", this.url \o <<"namespaces.json">>, this.auth, NoHeader, NoHeader, NoBody)

NamespaceClient_getAll_then(r) == JsonOrThrow(r)

NamespaceClient_create_fetch(this, prefix, uri) ==
  Req("POST", this.url \o <<"namespaces">>, this.auth, "application/json", NoHeader,
      JSON_stringify([root |-> "namespace",
                      props |-> <<[k |-> "prefix", v |-> prefix], [k |-> "uri", v |-> uri]>>,
                      entries |-> <<>>]))

NamespaceClient_create_then(r) == TextOrThrow(r)

NamespaceClient_get_fetch(this, name) ==
  Req("GET", this.url \o <<"namespaces/", name, ".json">>, this.auth, NoHeader, NoHeader, NoBody)

\* get asking for the version after every answer to the item GET.
NamespaceClient_get_then_probeOnOk(this, r) ==
  IF IsRejected(r) THEN Done(Throw(FetchError("network")))
  ELSE Fetch(AboutClient_getVersion_fetch(NewClient(this.url, this.auth)))

NamespaceClient_get_then(this, r) ==
  IF IsRejected(r) THEN Done(Throw(FetchError("network")))
  ELSE IF ~ok(r) THEN Fetch(AboutClient_getVersion_fetch(NewClient(this.url, this.auth)))
  ELSE Done(response_json(r))

\* get on clients that keep the answer to the latest probe in one place, where a
\* lookup reads what another lookup stored.
NamespaceClient_get_afterExists_sharedProbe(r, probe) ==
  LET latest == IF other.op = "namespaces.get" /\ Len(other.resps) = 2
                THEN other.resps[2] ELSE probe
      exists == AboutClient_exists_then(latest)
  IN IF exists.kind = "throw" THEN exists
     ELSE IF exists.value.b THEN Return(Undefined)
     ELSE ThrowResponseError(null, r)

NamespaceClient_get_afterExists(r, probe) ==
  LET exists == AboutClient_exists_then(probe)
  IN IF exists.kind = "throw" THEN exists
     ELSE IF exists.value.b THEN Return(Undefined)
     ELSE ThrowResponseError(null, r)

NamespaceClient_delete_fetch(this, name) ==
  Req("DELETE", this.url \o <<"namespaces/", name>>, this.auth, NoHeader, NoHeader, NoBody)

NamespaceClient_delete_then(r) ==
  IF IsRejected(r) THEN Throw(FetchError("network"))
  ELSE IF ~ok(r)
    THEN IF r.status = 403
           THEN ThrowResponseError("Namespace or related Workspace is not empty (and recurse not true)", r)
         ELSE IF r.status = 404 THEN ThrowResponseError("Namespace doesn't exist", r)
         ELSE IF r.status = 405 THEN ThrowResponseError("Can't delete default namespace", r)
         ELSE ThrowResponseError("Response not recognized", r)
  ELSE Return(Undefined)

(***************************************************************************)
(* DatastoreClient (src/src/datastore.ts).                                 *)
(***************************************************************************)
DatastoreClient_getStores_fetch(this, workspace, storeType) ==
  Req("GET", this.url \o <<"workspaces/", workspace, "/", storeType, ".json">>, this.auth,
      NoHeader, NoHeader, NoBody)

DatastoreClient_getStores_then(r) == JsonOrThrow(r)

DatastoreClient_getStore_fetch(this, workspace, storeName, storeType) ==
  Req("GET", this.url \o <<"workspaces/", workspace, "/", storeType, "/", storeName, ".json">>,
      this.auth, NoHeader, NoHeader, NoBody)

\* getStore building its AboutClient without the auth argument.
NoAuth == [scheme |-> "none", token |-> <<>>]
DatastoreClient_getStore_then_noAuth(this, r) ==
  IF IsRejected(r) THEN Done(Throw(FetchError("network")))
  ELSE IF ~ok(r) THEN Fetch(AboutClient_getVersion_fetch(NewClient(this.url, NoAuth)))
  ELSE Done(response_json(r))

DatastoreClient_getStore_then(this, r) ==
  IF IsRejected(r) THEN Done(Throw(FetchError("network")))
  ELSE IF ~ok(r) THEN Fetch(AboutClient_getVersion_fetch(NewClient(this.url, this.auth)))
  ELSE Done(response_json(r))

DatastoreClient_getStore_afterExists(r, probe) ==
  LET exists == AboutClient_exists_then(probe)
  IN IF exists.kind = "throw" THEN exists
     ELSE IF exists.value.b THEN Return(Undefined)
     ELSE ThrowResponseError(null, r)

\* The typed wrappers of getStores and getStore pass these store types.
StoreTypeOf(op) ==
  CASE op \in {"datastores.getDataStores", "datastores.getDataStore"} -> "datastores"
    [] op \in {"datastores.getCoverageStores", "datastores.getCoverageStore"} -> "coveragestores"
    [] op \in {"datastores.getWmsStores", "datastores.getWmsStore"} -> "wmsstores"
    [] op \in {"datastores.getWmtsStores", "datastores.getWmtsStore"} -> "wmtsstores"

\* fs.statSync(filePath).size of the files of the model; a missing file throws.
FileExists(filePath) == filePath \in Files
FileSize(filePath) == fs.size[filePath]

\* layerTitle || layerName; the size of the file as the Content-length header.
DatastoreClient_createGeotiffFromFile_fetch(this, workspace, coverageStore, layerName, layerTitle, filePath) ==
  Req("PUT",
      this.url \o <<"workspaces/", workspace, "/coveragestores/", coverageStore, "/file.geotiff">>
               \o <<"?filename=", JsOr(layerTitle, layerName), "&coverageName=", layerName>>,
      this.auth, "image/tiff", ToString(FileSize(filePath)),
      [kind |-> "stream", path |-> filePath])

DatastoreClient_createGeotiffFromFile_then(r) == TextOrThrow(r)

\* The body with exposePk passed on as it came.
PostgisBody_noDefault(workspace, namespaceUri, dataStore, pgHost, pgPort, pgUser, pgPassword, pgSchema, pgDb, exposePk) ==
  [root |-> "dataStore",
   props |-> <<[k |-> "name", v |-> dataStore], [k |-> "type", v |-> "PostGIS"],
               [k |-> "enabled", v |-> "true"], [k |-> "workspace.name", v |-> workspace]>>,
   entries |-> <<[key |-> "dbtype", v |-> "postgis"],
                 [key |-> "schema", v |-> pgSchema],
                 [key |-> "database", v |-> pgDb],
                 [key |-> "host", v |-> pgHost],
                 [key |-> "port", v |-> pgPort],
                 [key |-> "passwd", v |-> pgPassword],
                 [key |-> "namespace", v |-> namespaceUri],
                 [key |-> "user", v |-> pgUser],
                 [key |-> "Expose primary keys", v |-> exposePk]>>]

PostgisBody(workspace, namespaceUri, dataStore, pgHost, pgPort, pgUser, pgPassword, pgSchema, pgDb, exposePk) ==
  [root |-> "dataStore",
   props |-> <<[k |-> "name", v |-> dataStore], [k |-> "type", v |-> "PostGIS"],
               [k |-> "enabled", v |-> "true"], [k |-> "workspace.name", v |-> workspace]>>,
   entries |-> <<[key |-> "dbtype", v |-> "postgis"],
                 [key |-> "schema", v |-> pgSchema],
                 [key |-> "database", v |-> pgDb],
                 [key |-> "host", v |-> pgHost],
                 [key |-> "port", v |-> pgPort],
                 [key |-> "passwd", v |-> pgPassword],
                 [key |-> "namespace", v |-> namespaceUri],
                 [key |-> "user", v |-> pgUser],
                 [key |-> "Expose primary keys", v |-> JsOr(exposePk, "false")]>>]

DatastoreClient_createPostgisStore_fetch(this, a) ==
  Req("POST", this.url \o <<"workspaces/", a.workspace, "/datastores">>, this.auth,
      "application/json", NoHeader,
      JSON_stringify(PostgisBody(a.workspace, a.namespaceUri, a.dataStore, a.pgHost, a.pgPort,
                                 a.pgUser, a.pgPassword, a.pgSchema, a.pgDb, a.exposePk)))

DatastoreClient_createPostgisStore_then(r) == VoidOrThrow(r)

DatastoreClient_createImageMosaicStore_fetch(this, workspace, coverageStore, zipArchivePath) ==
  Req("PUT",
      this.url \o <<"workspaces/", workspace, "/coveragestores/", coverageStore, "/file.imagemosaic">>,
      this.auth, "application/zip", NoHeader, [kind |-> "stream", path |-> zipArchivePath])

DatastoreClient_createImageMosaicStore_then(r) == TextOrThrow(r)

DatastoreClient_createWmsStore_fetch(this, workspace, dataStore, wmsCapabilitiesUrl) ==
  Req("POST", this.url \o <<"workspaces/", workspace, "/wmsstores">>, this.auth,
      "application/json", NoHeader,
      JSON_stringify([root |-> "wmsStore",
                      props |-> <<[k |-> "name", v |-> dataStore], [k |-> "type", v |-> "WMS"],
                                  [k |-> "capabilitiesURL", v |-> wmsCapabilitiesUrl]>>,
                      entries |-> <<>>]))

DatastoreClient_createWmsStore_then(r) == VoidOrThrow(r)

DatastoreClient_createWmtsStore_fetch(this, workspace, dataStore, wmtsCapabilitiesUrl) ==
  Req("POST", this.url \o <<"workspaces/", workspace, "/wmtsstores">>, this.auth,
      "application/json", NoHeader,
      JSON_stringify([root |-> "wmtsStore",
                      props |-> <<[k |-> "name", v |-> dataStore], [k |-> "type", v |-> "WMTS"],
                                  [k |-> "capabilitiesURL", v |-> wmtsCapabilitiesUrl]>>,
                      entries |-> <<>>]))

DatastoreClient_createWmtsStore_then(r) == VoidOrThrow(r)

\* The body of a function whose last parameter has no default value.
WfsBody_noDefault(dataStore, wfsCapabilitiesUrl, namespaceUrl, useHttpConnectionPooling) ==
  [root |-> "dataStore",
   props |-> <<[k |-> "name", v |-> dataStore], [k |-> "type", v |-> "Web Feature Server (NG)"]>>,
   entries |-> <<[key |-> "WFSDataStoreFactory:GET_CAPABILITIES_URL", v |-> wfsCapabilitiesUrl],
                 [key |-> "namespace", v |-> namespaceUrl],
                 [key |-> "WFSDataStoreFactory:USE_HTTP_CONNECTION_POOLING",
                  v |-> useHttpConnectionPooling]>>]

WfsBody(dataStore, wfsCapabilitiesUrl, namespaceUrl, useHttpConnectionPooling) ==
  [root |-> "dataStore",
   props |-> <<[k |-> "name", v |-> dataStore], [k |-> "type", v |-> "Web Feature Server (NG)"]>>,
   entries |-> <<[key |-> "WFSDataStoreFactory:GET_CAPABILITIES_URL", v |-> wfsCapabilitiesUrl],
                 [key |-> "namespace", v |-> namespaceUrl],
                 [key |-> "WFSDataStoreFactory:USE_HTTP_CONNECTION_POOLING",
                  v |-> JsDefault(useHttpConnectionPooling, "true")]>>]

DatastoreClient_createWfsStore_fetch(this, workspace, dataStore, wfsCapabilitiesUrl, namespaceUrl, useHttpConnectionPooling) ==
  Req("POST", this.url \o <<"workspaces/", workspace, "/datastores">>, this.auth,
      "application/json", NoHeader,
      JSON_stringify(WfsBody(dataStore, wfsCapabilitiesUrl, namespaceUrl, useHttpConnectionPooling)))

DatastoreClient_createWfsStore_then(r) == VoidOrThrow(r)

DatastoreClient_deleteDataStore_fetch(this, workspace, dataStore, recurse) ==
  Req("DELETE", this.url \o <<"workspaces/", workspace, "/datastores/", dataStore>>
                         \o <<"?recurse=", recurse>>,
      this.auth, NoHeader, NoHeader, NoBody)

DatastoreClient_deleteDataStore_then(r) == VoidOrThrow(r)

DatastoreClient_deleteCoverageStore_fetch(this, workspace, coverageStore, recurse) ==
  Req("DELETE", this.url \o <<"workspaces/", workspace, "/coveragestores/", coverageStore>>
                         \o <<"?recurse=", recurse>>,
      this.auth, NoHeader, NoHeader, NoBody)

DatastoreClient_deleteCoverageStore_then(r) ==
  IF IsRejected(r) THEN Throw(FetchError("network"))
  ELSE IF ~ok(r)
    THEN IF r.status = 401
           THEN ThrowResponseError("Deletion failed. There might be dependant objects to this store. Delete them first or call this with \"recurse=false\"", r)
           ELSE ThrowResponseError(null, r)
  ELSE Return(Undefined)

\* `file:${gpkgPath}` on the paths of the model; undefined prints as "undefined".
FileUri(gpkgPath) ==
  CASE gpkgPath = "iceland.gpkg" -> "file:iceland.gpkg"
    [] gpkgPath = "undefined" -> "file:undefined"
    [] OTHER -> "file:other"

GpkgBody(dataStore, gpkgPath) ==
  [root |-> "dataStore",
   props |-> <<[k |-> "name", v |-> dataStore], [k |-> "type", v |-> "GeoPackage"]>>,
   entries |-> <<[key |-> "database", v |-> FileUri(gpkgPath)],
                 [key |-> "dbtype", v |-> "geopkg"]>>]

DatastoreClient_createGpkgStore_fetch(this, workspace, dataStore, gpkgPath) ==
  Req("POST", this.url \o <<"workspaces/", workspace, "/datastores">>, this.auth,
      "application/json", NoHeader, JSON_stringify(GpkgBody(dataStore, gpkgPath)))

DatastoreClient_createGpkgStore_then(r) == VoidOrThrow(r)

(***************************************************************************)
(* SettingsClient (src/src/settings.ts).                                   *)
(***************************************************************************)
SettingsClient_getSettings_fetch(this) ==
  Req("GET", this.url \o <<"settings.json">>, this.auth, NoHeader, NoHeader, NoBody)

SettingsClient_getSettings_then(r) == JsonOrThrow(r)

\* The body is JSON.stringify(settings) of the object the caller passes.
SettingsClient_updateSettings_fetch(this, settings) ==
  Req("PUT", this.url \o <<"settings">>, this.auth, "application/json", NoHeader,
      [kind |-> "json", root |-> "settings", settings |-> settings])

SettingsClient_updateSettings_then(r) == VoidOrThrow(r)

\* After getSettings: the format check, the assignment of proxyBaseUrl, the PUT.
\* !settingsJson.global && !settingsJson.global.settings reads a property of
\* undefined when global is missing, and is false when only settings is missing,
\* where the assignment then writes a property of undefined.
SettingsClient_updateProxyBaseUrl_then(this, proxyBaseUrl, r) ==
  LET got == SettingsClient_getSettings_then(r)
      settingsJson == got.value.p
  IN IF got.kind = "throw" THEN Done(got)
     ELSE IF settingsJson.kind # "settings" \/ ~settingsJson.global
       THEN Done(Throw(TypeError("Cannot read properties of undefined (reading 'settings')")))
     ELSE IF ~settingsJson.settings
       THEN Done(Throw(TypeError("Cannot set properties of undefined (setting 'proxyBaseUrl')")))
     ELSE Fetch(SettingsClient_updateSettings_fetch(this,
                  [settingsJson EXCEPT !.proxyBaseUrl = proxyBaseUrl]))

SettingsClient_updateProxyBaseUrl_afterPut(r) == SettingsClient_updateSettings_then(r)

SettingsClient_getContactInformation_fetch(this) ==
  Req("GET", this.url \o <<"settings/contact">>, this.auth, NoHeader, NoHeader, NoBody)

SettingsClient_getContactInformation_then(r) == JsonOrThrow(r)

\* The contact with the city and the state under each other's key.
ContactBody_swapped(address, city, country, postalCode, state, email, organization, contactPerson, phoneNumber) ==
  [root |-> "contact",
   props |-> <<[k |-> "address", v |-> address],
               [k |-> "addressCity", v |-> state],
               [k |-> "addressCountry", v |-> country],
               [k |-> "addressPostalCode", v |-> postalCode],
               [k |-> "addressState", v |-> city],
               [k |-> "contactEmail", v |-> email],
               [k |-> "contactOrganization", v |-> organization],
               [k |-> "contactPerson", v |-> contactPerson],
               [k |-> "contactVoice", v |-> phoneNumber]>>,
   entries |-> <<>>]

ContactBody(address, city, country, postalCode, state, email, organization, contactPerson, phoneNumber) ==
  [root |-> "contact",
   props |-> <<[k |-> "address", v |-> address],
               [k |-> "addressCity", v |-> city],
               [k |-> "addressCountry", v |-> country],
               [k |-> "addressPostalCode", v |-> postalCode],
               [k |-> "addressState", v |-> state],
               [k |-> "contactEmail", v |-> email],
               [k |-> "contactOrganization", v |-> organization],
               [k |-> "contactPerson", v |-> contactPerson],
               [k |-> "contactVoice", v |-> phoneNumber]>>,
   entries |-> <<>>]

SettingsClient_updateContactInformation_fetch(this, a) ==
  Req("PUT", this.url \o <<"settings/contact">>, this.auth, "application/json", NoHeader,
      JSON_stringify(ContactBody(a.address, a.city, a.country, a.postalCode, a.state, a.email,
                                 a.organization, a.contactPerson, a.phoneNumber)))

SettingsClient_updateContactInformation_then(r) == VoidOrThrow(r)

(***************************************************************************)
(* The environment: the network and the remote GeoServer.  The status      *)
(* codes are those the clients' switch statements and their comments name. *)
(***************************************************************************)
NoPayload == [kind |-> "none"]
Resp(status, fmt, payload, text) ==
  [kind |-> "response", status |-> status, fmt |-> fmt, payload |-> payload,
   text |-> text, readable |-> TRUE]

\* A response arrives whole, or its body breaks off while it is read.
Both(r) == {r, [r EXCEPT !.readable = FALSE]}

\* Failures no client classifies, which a server may answer to any request.
UnclassifiedCodes == {401, 500}
\* What a GET of one item may answer when the item is absent or cannot be served.
ItemFailCodes == {403, 404, 500}

ErrText(req, status) == <<"diagnostic", ToString(status)>> \o req.url
Err(req, codes) == UNION {Both(Resp(c, "text", NoPayload, ErrText(req, c))) : c \in codes}
OkJson(payload) == Both(Resp(200, "json", payload, <<"json">>))
OkText(status, text) == Both(Resp(status, "text", NoPayload, text))

\* The part of a request url after the endpoint, or <<>> for a url outside it.
EndpointPath(url) ==
  IF Len(url) > Len(ValidBase) /\ SubSeq(url, 1, Len(ValidBase)) = ValidBase
  THEN SubSeq(url, Len(ValidBase) + 1, Len(url))
  ELSE <<>>

\* The listing of one family, in the server's order, each name once.
Listing(items, family) ==
  SelectSeq(NameOrder, LAMBDA n : <<family, n>> \in items)

FamilyOf(token) ==
  CASE token \in {"workspaces/", "workspaces", "workspaces.json"} -> "workspaces"
    [] token \in {"namespaces/", "namespaces", "namespaces.json"} -> "namespaces"
    [] token \in {"datastores", "/datastores", "/datastores/"} -> "datastores"
    [] token \in {"coveragestores", "/coveragestores", "/coveragestores/"} -> "coveragestores"
    [] token \in {"wmsstores", "/wmsstores"} -> "wmsstores"
    [] token \in {"wmtsstores", "/wmtsstores"} -> "wmtsstores"
    [] OTHER -> "unknown"

StoresIn(items) == {i \in items : i[1] \in StoreTypes}

\* The payloads a version request may decode to: GeoServer's version object, and
\* what another service behind the same url may answer with status 200.
VersionPayloads == {[kind |-> "version"], [kind |-> "emptyObject"],
                    [kind |-> "null"], [kind |-> "emptyString"]}

\* The shapes of the settings object: complete, without global.settings, without global.
SettingsShapes == {<<TRUE, TRUE>>, <<TRUE, FALSE>>, <<FALSE, FALSE>>}

Same(resps) == {[resp |-> r, items |-> srvItems, settings |-> srvSettings] : r \in resps}
With(resps, items) == {[resp |-> r, items |-> items, settings |-> srvSettings] : r \in resps}

\* POST of a new item: 409 when the name is taken, 201 and the name as text otherwise.
AnswerCreate(req, key) ==
  IF key \in srvItems THEN Same(Err(req, {409}))
  ELSE IF key[1] \in StoreTypes /\ <<"workspaces", StoreWs>> \notin srvItems
    THEN Same(Err(req, {404}))
  ELSE Same(Err(req, UnclassifiedCodes))
       \cup (IF Cardinality(srvItems) < MaxItems
             THEN With(OkText(201, <<key[2]>>), srvItems \cup {key}) ELSE {})

\* DELETE of a workspace: 404 when absent, 400 when it holds stores and recurse is
\* not true, else the workspace and its stores are removed.
AnswerWorkspaceDelete(req, name, recurse) ==
  LET key == <<"workspaces", name>>
      held == IF name = StoreWs THEN StoresIn(srvItems) ELSE {}
  IN IF key \notin srvItems THEN Same(Err(req, {404}))
     ELSE IF held # {} /\ recurse # "true" THEN Same(Err(req, {400}))
     ELSE Same(Err(req, UnclassifiedCodes))
          \cup With(OkText(200, <<>>), (srvItems \ {key}) \ held)

\* DELETE of a namespace: 404 when absent; 403 when not empty, 405 for the default one.
AnswerNamespaceDelete(req, name) ==
  LET key == <<"namespaces", name>>
  IN IF key \notin srvItems THEN Same(Err(req, {404}))
     ELSE Same(Err(req, UnclassifiedCodes \cup {403, 405}))
          \cup With(OkText(200, <<>>), srvItems \ {key})

AnswerStoreDelete(req, key) ==
  IF key \notin srvItems THEN Same(Err(req, {404}))
  ELSE Same(Err(req, UnclassifiedCodes \cup {403}))
       \cup With(OkText(200, <<>>), srvItems \ {key})

AnswerList(req, family) ==
  Same(Err(req, UnclassifiedCodes)
       \cup OkJson([kind |-> "list", family |-> family, names |-> Listing(srvItems, family)]))

AnswerItem(req, key) ==
  IF key \in srvItems
  THEN Same(Err(req, {403, 500}) \cup OkJson([kind |-> "item", family |-> key[1], name |-> key[2]]))
  ELSE Same(Err(req, ItemFailCodes))

AnswerVersion(req) ==
  Same(Err(req, UnclassifiedCodes)
       \cup UNION {OkJson(v) : v \in VersionPayloads}
       \cup {Resp(200, "text", NoPayload, <<"html">>)})

AnswerSettingsGet(req) ==
  Same(Err(req, UnclassifiedCodes)
       \cup UNION {OkJson([kind |-> "settings", global |-> sh[1], settings |-> sh[2],
                           proxyBaseUrl |-> srvSettings.proxyBaseUrl,
                           charset |-> srvSettings.charset]) : sh \in SettingsShapes})

AnswerSettingsPut(req) ==
  Same(Err(req, UnclassifiedCodes))
  \cup {[resp |-> r, items |-> srvItems,
         settings |-> [srvSettings EXCEPT !.proxyBaseUrl = req.body.settings.proxyBaseUrl,
                                          !.charset = req.body.settings.charset]]
        : r \in OkText(200, <<>>)}

\* The keys of the server's contact.
ContactKeys == {"address", "addressCity", "addressCountry", "addressPostalCode",
                "addressState", "contactEmail", "contactOrganization", "contactPerson",
                "contactVoice"}

\* The contact after a PUT: each key of the body takes the body's value, every
\* other key keeps its own (a PUT deletes nothing).
StoreContact(old, props) ==
  [k \in ContactKeys |->
     IF \E i \in 1..Len(props) : props[i].k = k
     THEN props[CHOOSE i \in 1..Len(props) : props[i].k = k].v
     ELSE old[k]]

AnswerContactGet(req) ==
  Same(Err(req, UnclassifiedCodes)
       \cup OkJson([kind |-> "contact", contact |-> srvSettings.contact]))
AnswerContactPut(req) ==
  Same(Err(req, UnclassifiedCodes))
  \cup {[resp |-> r, items |-> srvItems,
         settings |-> [srvSettings EXCEPT !.contact = StoreContact(@, req.body.props)]]
        : r \in OkText(200, <<>>)}

\* The server's routing of a request by method and path.
ServerAnswers(req) ==
  LET m == req.method
      p == EndpointPath(req.url)
      n == Len(p)
  IN CASE p = <<>> -> Same(Err(req, {404}))
       [] m = "GET" /\ p = <<"about/version.json">> -> AnswerVersion(req)
       [] m = "GET" /\ p \in {<<"workspaces.json">>, <<"namespaces.json">>} ->
            AnswerList(req, FamilyOf(p[1]))
       [] m = "GET" /\ n = 3 /\ p[3] = ".json" /\ p[1] \in {"workspaces/", "namespaces/"} ->
            AnswerItem(req, <<FamilyOf(p[1]), p[2]>>)
       [] m = "POST" /\ p \in {<<"workspaces">>, <<"namespaces">>} ->
            AnswerCreate(req, <<FamilyOf(p[1]), req.body.props[1].v>>)
       [] m = "DELETE" /\ n = 4 /\ p[1] = "workspaces/" /\ p[3] = "?recurse=" ->
            AnswerWorkspaceDelete(req, p[2], p[4])
       [] m = "DELETE" /\ n = 2 /\ p[1] = "namespaces/" -> AnswerNamespaceDelete(req, p[2])
       [] m = "GET" /\ n = 5 /\ p[1] = "workspaces/" /\ p[5] = ".json" ->
            IF <<"workspaces", p[2]>> \in srvItems THEN AnswerList(req, FamilyOf(p[4]))
            ELSE Same(Err(req, {404}))
       [] m = "GET" /\ n = 7 /\ p[1] = "workspaces/" /\ p[7] = ".json" ->
            IF <<"workspaces", p[2]>> \in srvItems THEN AnswerItem(req, <<FamilyOf(p[4]), p[6]>>)
            ELSE Same(Err(req, ItemFailCodes))
       [] m = "POST" /\ n = 3 /\ p[1] = "workspaces/" ->
            AnswerCreate(req, <<FamilyOf(p[3]), req.body.props[1].v>>)
       [] m = "PUT" /\ n >= 5 /\ p[1] = "workspaces/" /\ p[3] = "/coveragestores/" ->
            AnswerCreate(req, <<"coveragestores", p[4]>>)
       [] m = "DELETE" /\ n = 6 /\ p[1] = "workspaces/" /\ p[5] = "?recurse=" ->
            AnswerStoreDelete(req, <<FamilyOf(p[3]), p[4]>>)
       [] m = "GET" /\ p = <<"settings.json">> -> AnswerSettingsGet(req)
       [] m = "PUT" /\ p = <<"settings">> -> AnswerSettingsPut(req)
       [] m = "GET" /\ p = <<"settings/contact">> -> AnswerContactGet(req)
       [] m = "PUT" /\ p = <<"settings/contact">> -> AnswerContactPut(req)
       [] OTHER -> Same(Err(req, {404}))

\* fetch: it rejects when the network is down or the stream of the body fails
\* (a file that cannot be opened); otherwise the server answers.
Transport(req) ==
  IF net = "down" \/ (req.body.kind = "stream" /\ ~FileExists(req.body.path))
  THEN Same({Rejected})
  ELSE ServerAnswers(req)

(***************************************************************************)
(* The caller: one operation at a time, from its call to its result.       *)
(***************************************************************************)
NoResult == [kind |-> "pending"]
Idle == [op |-> "none", args |-> [none |-> TRUE], pc |-> "idle",
         reqs |-> <<>>, resps |-> <<>>, result |-> NoResult]

\* The operation runs to its first await: the fetch of its request.
Start(op, args, req) ==
  /\ call.pc = "idle"
  /\ call' = [op |-> op, args |-> args, pc |-> "await",
              reqs |-> <<req>>, resps |-> <<>>, result |-> NoResult]
  /\ UNCHANGED <<ctor, facade, clients, net, srvItems, srvSettings, trip, fs, seen, other>>

\* fs.createReadStream(path) and the first await fetch with the stream as body:
\* the stream of a file that exists is open; that of a missing file fails to
\* open and is destroyed.
StartUpload(op, args, req, path) ==
  /\ call.pc = "idle"
  /\ call' = [op |-> op, args |-> args, pc |-> "await",
              reqs |-> <<req>>, resps |-> <<>>, result |-> NoResult]
  /\ fs' = [fs EXCEPT !.readStream = IF FileExists(path) THEN "open" ELSE "closed",
                      !.streamed = 0]
  /\ UNCHANGED <<ctor, facade, clients, net, srvItems, srvSettings, trip, seen, other>>

\* The operation throws before any request is issued.
Fail(op, args, error) ==
  /\ call.pc = "idle"
  /\ call' = [op |-> op, args |-> args, pc |-> "done",
              reqs |-> <<>>, resps |-> <<>>, result |-> Throw(error)]
  /\ UNCHANGED <<ctor, facade, clients, net, srvItems, srvSettings, trip, fs, seen, other>>

LookupOps == {"workspaces.get", "namespaces.get", "datastores.getStore",
              "datastores.getDataStore", "datastores.getCoverageStore",
              "datastores.getWmsStore", "datastores.getWmtsStore"}
StoreLookupWrappers == {"datastores.getDataStore", "datastores.getCoverageStore",
                        "datastores.getWmsStore", "datastores.getWmtsStore"}
StoreListWrappers == {"datastores.getDataStores", "datastores.getCoverageStores",
                      "datastores.getWmsStores", "datastores.getWmtsStores"}

AboutClient_getVersion ==
  Start("about.getVersion", [none |-> TRUE], AboutClient_getVersion_fetch(clients["about"]))

AboutClient_exists ==
  Start("about.exists", [none |-> TRUE], AboutClient_getVersion_fetch(clients["about"]))

WorkspaceClient_getAll ==
  Start("workspaces.getAll", [none |-> TRUE], WorkspaceClient_getAll_fetch(clients["workspaces"]))

WorkspaceClient_get ==
  \E name \in WsNames :
    Start("workspaces.get", [name |-> name],
          WorkspaceClient_get_fetch(clients["workspaces"], name))

WorkspaceClient_create(name) ==
  Start("workspaces.create", [name |-> name],
        WorkspaceClient_create_fetch(clients["workspaces"], name))

WorkspaceClient_delete(name, recurse) ==
  Start("workspaces.delete", [name |-> name, recurse |-> recurse],
        WorkspaceClient_delete_fetch(clients["workspaces"], name, recurse))

NamespaceClient_getAll ==
  Start("namespaces.getAll", [none |-> TRUE], NamespaceClient_getAll_fetch(clients["namespaces"]))

NamespaceClient_create ==
  \E prefix \in NsNames :
    Start("namespaces.create", [name |-> prefix, uri |-> "http://test"],
          NamespaceClient_create_fetch(clients["namespaces"], prefix, "http://test"))

NamespaceClient_get ==
  \E name \in NsNames :
    Start("namespaces.get", [name |-> name],
          NamespaceClient_get_fetch(clients["namespaces"], name))

NamespaceClient_delete ==
  \E name \in NsNames :
    Start("namespaces.delete", [name |-> name],
          NamespaceClient_delete_fetch(clients["namespaces"], name))

\* getDataStores, getCoverageStores, getWmsStores, getWmtsStores
DatastoreClient_getStoresOfType ==
  \E op \in StoreListWrappers :
    Start(op, [workspace |-> StoreWs],
          DatastoreClient_getStores_fetch(clients["datastores"], StoreWs, StoreTypeOf(op)))

DatastoreClient_getStores ==
  \E storeType \in {"datastores"} :
    Start("datastores.getStores", [workspace |-> StoreWs, storeType |-> storeType],
          DatastoreClient_getStores_fetch(clients["datastores"], StoreWs, storeType))

\* getDataStore, getCoverageStore, getWmsStore, getWmtsStore
DatastoreClient_getStoreOfType ==
  \E op \in StoreLookupWrappers, name \in StoreNames :
    Start(op, [workspace |-> StoreWs, name |-> name, storeType |-> StoreTypeOf(op)],
          DatastoreClient_getStore_fetch(clients["datastores"], StoreWs, name, StoreTypeOf(op)))

DatastoreClient_getStore ==
  \E name \in StoreNames, storeType \in {"datastores"} :
    Start("datastores.getStore", [workspace |-> StoreWs, name |-> name, storeType |-> storeType],
          DatastoreClient_getStore_fetch(clients["datastores"], StoreWs, name, storeType))

\* fs.statSync(filePath) throws for a file that does not exist, before the fetch.
DatastoreClient_createGeotiffFromFile ==
  \E name \in StoreNames, filePath \in Files \cup {MissingFile} :
    LET args == [workspace |-> StoreWs, name |-> name, layerName |-> "layer",
                 layerTitle |-> "undefined", filePath |-> filePath]
    IN IF FileExists(filePath)
       THEN StartUpload("datastores.createGeotiffFromFile", args,
                        DatastoreClient_createGeotiffFromFile_fetch(
                          clients["datastores"], StoreWs, name, "layer", "undefined", filePath),
                        filePath)
       ELSE Fail("datastores.createGeotiffFromFile", args, FsError("ENOENT"))

DatastoreClient_createPostgisStore ==
  \E name \in StoreNames, exposePk \in {"undefined", "true", "false"} :
    LET args == [workspace |-> StoreWs, name |-> name, namespaceUri |-> "ns",
                 dataStore |-> name, pgHost |-> "h", pgPort |-> "5432", pgUser |-> "u",
                 pgPassword |-> "p", pgSchema |-> "s", pgDb |-> "d", exposePk |-> exposePk]
    IN Start("datastores.createPostgisStore", args,
             DatastoreClient_createPostgisStore_fetch(clients["datastores"], args))

DatastoreClient_createImageMosaicStore ==
  \E name \in StoreNames, zip \in Files \cup {MissingFile} :
    StartUpload("datastores.createImageMosaicStore",
                [workspace |-> StoreWs, name |-> name, zipArchivePath |-> zip],
                DatastoreClient_createImageMosaicStore_fetch(clients["datastores"], StoreWs, name, zip),
                zip)

DatastoreClient_createWmsStore ==
  \E name \in StoreNames :
    Start("datastores.createWmsStore", [workspace |-> StoreWs, name |-> name],
          DatastoreClient_createWmsStore_fetch(clients["datastores"], StoreWs, name, "http://wms"))

DatastoreClient_createWmtsStore ==
  \E name \in StoreNames :
    Start("datastores.createWmtsStore", [workspace |-> StoreWs, name |-> name],
          DatastoreClient_createWmtsStore_fetch(clients["datastores"], StoreWs, name, "http://wmts"))

DatastoreClient_createWfsStore ==
  \E name \in StoreNames, pooling \in {"undefined", "false"} :
    Start("datastores.createWfsStore",
          [workspace |-> StoreWs, name |-> name, useHttpConnectionPooling |-> pooling],
          DatastoreClient_createWfsStore_fetch(clients["datastores"], StoreWs, name,
                                               "http://wfs", "http://test", pooling))

DatastoreClient_deleteDataStore ==
  \E name \in StoreNames, recurse \in {"true"} :
    Start("datastores.deleteDataStore",
          [workspace |-> StoreWs, name |-> name, recurse |-> recurse],
          DatastoreClient_deleteDataStore_fetch(clients["datastores"], StoreWs, name, recurse))

DatastoreClient_deleteCoverageStore ==
  \E name \in StoreNames, recurse \in {"true"} :
    Start("datastores.deleteCoverageStore",
          [workspace |-> StoreWs, name |-> name, recurse |-> recurse],
          DatastoreClient_deleteCoverageStore_fetch(clients["datastores"], StoreWs, name, recurse))

DatastoreClient_createGpkgStore ==
  \E name \in StoreNames :
    Start("datastores.createGpkgStore", [workspace |-> StoreWs, name |-> name],
          DatastoreClient_createGpkgStore_fetch(clients["datastores"], StoreWs, name,
                                                "iceland.gpkg"))

SettingsClient_getSettings ==
  Start("settings.getSettings", [none |-> TRUE],
        SettingsClient_getSettings_fetch(clients["settings"]))

\* The caller passes a settings object of its own.
SettingsClient_updateSettings ==
  \E p \in ProxyUrls :
    LET settings == [kind |-> "settings", global |-> TRUE, settings |-> TRUE,
                     proxyBaseUrl |-> p, charset |-> "c1"]
    IN Start("settings.updateSettings", [settings |-> settings],
             SettingsClient_updateSettings_fetch(clients["settings"], settings))

\* Its first await is getSettings.
SettingsClient_updateProxyBaseUrl ==
  \E p \in ProxyUrls :
    Start("settings.updateProxyBaseUrl", [proxyBaseUrl |-> p],
          SettingsClient_getSettings_fetch(clients["settings"]))

SettingsClient_getContactInformation ==
  Start("settings.getContactInformation", [none |-> TRUE],
        SettingsClient_getContactInformation_fetch(clients["settings"]))

SettingsClient_updateContactInformation(address) ==
  LET args == [address |-> address, city |-> "c", country |-> "co", postalCode |-> "pc",
               state |-> "s", email |-> "e", organization |-> "o", contactPerson |-> "cp",
               phoneNumber |-> "ph"]
  IN Start("settings.updateContactInformation", args,
           SettingsClient_updateContactInformation_fetch(clients["settings"], args))

\* What the operation in flight does with the response to its latest request.
Resume(c, r) ==
  LET first == Len(c.resps) = 0
      op == c.op
  IN CASE op = "about.getVersion" -> Done(AboutClient_getVersion_then(r))
       [] op = "about.exists" -> Done(AboutClient_exists_then(r))
       [] op = "workspaces.getAll" -> Done(WorkspaceClient_getAll_then(r))
       [] op = "workspaces.get" ->
            IF first THEN WorkspaceClient_get_then(clients["workspaces"], r)
            ELSE Done(WorkspaceClient_get_afterExists(c.resps[1], r))
       [] op = "workspaces.create" -> Done(WorkspaceClient_create_then(r))
       [] op = "workspaces.delete" -> Done(WorkspaceClient_delete_then(r))
       [] op = "namespaces.getAll" -> Done(NamespaceClient_getAll_then(r))
       [] op = "namespaces.create" -> Done(NamespaceClient_create_then(r))
       [] op = "namespaces.get" ->
            IF first THEN NamespaceClient_get_then(clients["namespaces"], r)
            ELSE Done(NamespaceClient_get_afterExists(c.resps[1], r))
       [] op = "namespaces.delete" -> Done(NamespaceClient_delete_then(r))
       [] op \in StoreListWrappers \cup {"datastores.getStores"} ->
            Done(DatastoreClient_getStores_then(r))
       [] op \in StoreLookupWrappers \cup {"datastores.getStore"} ->
            IF first THEN DatastoreClient_getStore_then(clients["datastores"], r)
            ELSE Done(DatastoreClient_getStore_afterExists(c.resps[1], r))
       [] op = "datastores.createGeotiffFromFile" ->
            Done(DatastoreClient_createGeotiffFromFile_then(r))
       [] op = "datastores.createPostgisStore" -> Done(DatastoreClient_createPostgisStore_then(r))
       [] op = "datastores.createImageMosaicStore" ->
            Done(DatastoreClient_createImageMosaicStore_then(r))
       [] op = "datastores.createWmsStore" -> Done(DatastoreClient_createWmsStore_then(r))
       [] op = "datastores.createWmtsStore" -> Done(DatastoreClient_createWmtsStore_then(r))
       [] op = "datastores.createWfsStore" -> Done(DatastoreClient_createWfsStore_then(r))
       [] op = "datastores.deleteDataStore" -> Done(DatastoreClient_deleteDataStore_then(r))
       [] op = "datastores.deleteCoverageStore" ->
            Done(DatastoreClient_deleteCoverageStore_then(r))
       [] op = "datastores.createGpkgStore" -> Done(DatastoreClient_createGpkgStore_then(r))
       [] op = "settings.getSettings" -> Done(SettingsClient_getSettings_then(r))
       [] op = "settings.updateSettings" -> Done(SettingsClient_updateSettings_then(r))
       [] op = "settings.updateProxyBaseUrl" ->
            IF first
            THEN SettingsClient_updateProxyBaseUrl_then(clients["settings"], c.args.proxyBaseUrl, r)
            ELSE Done(SettingsClient_updateProxyBaseUrl_afterPut(r))
       [] op = "settings.getContactInformation" ->
            Done(SettingsClient_getContactInformation_then(r))
       [] op = "settings.updateContactInformation" ->
            Done(SettingsClient_updateContactInformation_then(r))

\* What becomes of the read stream given to fetch as the body. A stream that
\* was read to its end has closed itself (autoClose), and the bytes streamed are
\* the file's bytes at that time. fetch does not destroy the stream: a fetch
\* that rejects leaves it open, and a server that refuses the request may have
\* read the body or not.
StreamAfter(req, r) ==
  LET consumed == [fs EXCEPT !.readStream = "closed", !.streamed = fs.size[req.body.path]]
  IN IF req.body.kind # "stream" \/ fs.readStream # "open" THEN {fs}
     ELSE IF IsRejected(r) THEN {fs}
     ELSE IF ok(r) THEN {consumed}
     ELSE {consumed, fs}

\* The transport settles the fetch in flight, and the operation runs on to its
\* next fetch or to its result.
Receive ==
  /\ call.pc = "await"
  /\ \E a \in Transport(Last(call.reqs)) :
       LET step == Resume(call, a.resp)
           resps == Append(call.resps, a.resp)
       IN /\ call' = IF step.next = "fetch"
                     THEN [call EXCEPT !.resps = resps, !.reqs = Append(@, step.req)]
                     ELSE [call EXCEPT !.resps = resps, !.pc = "done",
                                       !.result = step.outcome]
          /\ srvItems' = a.items
          /\ srvSettings' = a.settings
          /\ fs' \in StreamAfter(Last(call.reqs), a.resp)
  /\ UNCHANGED <<ctor, facade, clients, net, trip, seen, other>>

\* The caller takes the result and is free to call again; the read stream of
\* the call that ended is followed no further.
Settle ==
  /\ call.pc = "done"
  /\ call' = Idle
  /\ fs' = [fs EXCEPT !.readStream = "none", !.streamed = 0]
  /\ UNCHANGED <<ctor, facade, clients, net, srvItems, srvSettings, trip, seen, other>>

\* The network fails or recovers.
NetChange ==
  /\ net' = IF net = "up" THEN "down" ELSE "up"
  /\ UNCHANGED <<ctor, facade, clients, call, srvItems, srvSettings, trip, fs, seen, other>>

\* A local file is rewritten with another size.
FileChange ==
  /\ \E f \in Files : \E size \in FileSizes \ {fs.size[f]} :
       fs' = [fs EXCEPT !.size[f] = size]
  /\ UNCHANGED <<ctor, facade, clients, call, net, srvItems, srvSettings, trip, seen, other>>

\* No upload in progress, each file with its first size.
NoStream == [size |-> [f \in Files |-> 2], readStream |-> "none", streamed |-> 0]

\* The contact the server holds at the start.
FirstContact ==
  [k \in ContactKeys |->
     CASE k = "address" -> "a" [] k = "addressCity" -> "c" [] k = "addressCountry" -> "co"
       [] k = "addressPostalCode" -> "pc" [] k = "addressState" -> "s"
       [] k = "contactEmail" -> "e" [] k = "contactOrganization" -> "o"
       [] k = "contactPerson" -> "cp" [] OTHER -> "ph"]

\* The round trip is not running.
TripOff == [step |-> -1, before |-> <<>>, mid |-> <<>>, after |-> <<>>]

\* The constructor's arguments: a url with and without its last "/", a url
\* outside the endpoint, and credentials as bytes ("a" with "p" and with "pw").
CtorInputs ==
  {[url |-> <<"g", "/">>, user |-> <<97>>, password |-> <<112>>],
   [url |-> <<"g">>, user |-> <<97>>, password |-> <<112, 119>>],
   [url |-> <<"x", "/">>, user |-> <<97>>, password |-> <<112>>]}

\* The state after new GeoServerRestClient(url, user, password).
Init ==
  /\ ctor \in CtorInputs
  /\ facade = GeoServerRestClient(ctor.url, ctor.user, ctor.password)
  /\ clients = [k \in ClientNames |-> NewClient(facade.url, facade.auth)]
  /\ call = Idle
  /\ net = "up"
  /\ srvItems = {}
  /\ srvSettings = [proxyBaseUrl |-> "p0", charset |-> "c0", contact |-> FirstContact]
  /\ trip = TripOff
  /\ fs = NoStream
  /\ seen = {}
  /\ other = Idle

Invoke ==
  \/ AboutClient_getVersion
  \/ AboutClient_exists
  \/ WorkspaceClient_getAll
  \/ WorkspaceClient_get
  \/ \E name \in WsNames : WorkspaceClient_create(name)
  \/ \E name \in WsNames, recurse \in {"true", "false"} : WorkspaceClient_delete(name, recurse)
  \/ NamespaceClient_getAll
  \/ NamespaceClient_create
  \/ NamespaceClient_get
  \/ NamespaceClient_delete
  \/ DatastoreClient_getStoresOfType
  \/ DatastoreClient_getStores
  \/ DatastoreClient_getStoreOfType
  \/ DatastoreClient_getStore
  \/ DatastoreClient_createGeotiffFromFile
  \/ DatastoreClient_createPostgisStore
  \/ DatastoreClient_createImageMosaicStore
  \/ DatastoreClient_createWmsStore
  \/ DatastoreClient_createWmtsStore
  \/ DatastoreClient_createWfsStore
  \/ DatastoreClient_deleteDataStore
  \/ DatastoreClient_deleteCoverageStore
  \/ DatastoreClient_createGpkgStore
  \/ SettingsClient_getSettings
  \/ SettingsClient_updateSettings
  \/ SettingsClient_updateProxyBaseUrl
  \/ SettingsClient_getContactInformation
  \/ SettingsClient_updateContactInformation("a")

Next == Invoke \/ Receive \/ Settle \/ NetChange \/ FileChange

Spec == Init /\ [][Next]_vars

(***************************************************************************)
(* The workspace round trip of src/test/test.js (describe('Workspace')):   *)
(* create, getAll, delete with recurse, getAll, on a server without the    *)
(* workspace.                                                              *)
(***************************************************************************)
TripWorkspace == "w1"
TripStarts == {{}, {<<"workspaces", "w2">>}, {<<"namespaces", "n1">>}}

InitRoundTrip ==
  /\ ctor \in CtorInputs
  /\ facade = GeoServerRestClient(ctor.url, ctor.user, ctor.password)
  /\ clients = [k \in ClientNames |-> NewClient(facade.url, facade.auth)]
  /\ call = Idle
  /\ net = "up"
  /\ srvItems \in TripStarts
  /\ srvSettings = [proxyBaseUrl |-> "p0", charset |-> "c0", contact |-> FirstContact]
  /\ trip = [step |-> 0, before |-> Listing(srvItems, "workspaces"),
             mid |-> <<>>, after |-> <<>>]
  /\ fs = NoStream
  /\ seen = {}
  /\ other = Idle

\* The test's next call.
TripInvoke ==
  \/ trip.step = 0 /\ WorkspaceClient_create(TripWorkspace)
  \/ trip.step \in {1, 3} /\ WorkspaceClient_getAll
  \/ trip.step = 2 /\ WorkspaceClient_delete(TripWorkspace, "true")

\* The test takes the result: a listing is kept, a raised error ends the trip.
TripSettle ==
  /\ call.pc = "done"
  /\ call' = Idle
  /\ trip' = IF call.result.kind # "return" THEN [trip EXCEPT !.step = 9]
             ELSE IF trip.step = 1
               THEN [trip EXCEPT !.step = 2, !.mid = call.result.value.p.names]
             ELSE IF trip.step = 3
               THEN [trip EXCEPT !.step = 4, !.after = call.result.value.p.names]
             ELSE [trip EXCEPT !.step = @ + 1]
  /\ fs' = [fs EXCEPT !.readStream = "none", !.streamed = 0]
  /\ UNCHANGED <<ctor, facade, clients, net, srvItems, srvSettings, seen, other>>

NextRoundTrip == TripInvoke \/ Receive \/ TripSettle \/ NetChange

SpecRoundTrip == InitRoundTrip /\ [][NextRoundTrip]_vars

(***************************************************************************)
(* The contact round trip of the test suite (src/test/test.js, lines 31 to *)
(* 50): updateContactInformation, then getContactInformation, on a server  *)
(* whose contact holds other values at the start.                          *)
(***************************************************************************)
ContactAddresses == {"a", "a2"}

InitContact ==
  /\ ctor \in CtorInputs
  /\ facade = GeoServerRestClient(ctor.url, ctor.user, ctor.password)
  /\ clients = [k \in ClientNames |-> NewClient(facade.url, facade.auth)]
  /\ call = Idle
  /\ net = "up"
  /\ srvItems = {}
  /\ srvSettings = [proxyBaseUrl |-> "p0", charset |-> "c0",
                    contact |-> [k \in ContactKeys |-> "old"]]
  /\ trip = TripOff
  /\ fs = NoStream
  /\ seen = {}
  /\ other = Idle

ContactInvoke ==
  \/ \E address \in ContactAddresses : SettingsClient_updateContactInformation(address)
  \/ SettingsClient_getContactInformation

NextContact == ContactInvoke \/ Receive \/ Settle \/ NetChange

SpecContact == InitContact /\ [][NextContact]_vars

(***************************************************************************)
(* The claims.                                                             *)
(***************************************************************************)
IsDone == call.pc = "done"

\* The item a single-item lookup asks for, and whether the server holds it.
LookupKey(c) ==
  CASE c.op = "workspaces.get" -> <<"workspaces", c.args.name>>
    [] c.op = "namespaces.get" -> <<"namespaces", c.args.name>>
    [] OTHER -> <<c.args.storeType, c.args.name>>
ItemPresent(key) == key \in srvItems

IsResponse(r) == r.kind = "response"
\* GeoServer's answer to the version request, delivered whole.
GoodVersionAnswer(r) ==
  IsResponse(r) /\ r.status = 200 /\ r.readable /\ r.fmt = "json" /\ r.payload.kind = "version"

\* The request of the existence probe.
IsProbe(req) == req.method = "GET" /\ req.url = facade.url \o <<"about/version.json">>

\* C1: a single-item lookup of an item the server does not hold, answered by the
\* server with any status that is not ok while the version request is answered
\* by GeoServer, returns undefined and raises nothing.
C1_LookupOfAbsentItemIsEmpty ==
  (/\ IsDone /\ call.op \in LookupOps
   /\ ~ItemPresent(LookupKey(call))
   /\ Len(call.resps) >= 1 /\ IsResponse(call.resps[1])
   /\ (Len(call.resps) = 2 => GoodVersionAnswer(call.resps[2])))
  => call.result = Return(Undefined)

C1_Witness ==
  /\ IsDone /\ call.op \in LookupOps
  /\ ~ItemPresent(LookupKey(call))
  /\ Len(call.resps) = 2 /\ IsResponse(call.resps[1]) /\ call.resps[1].status = 500
  /\ GoodVersionAnswer(call.resps[2])
  /\ call.result = Return(Undefined)

\* The server is unreachable for a call: each of its requests is rejected by the
\* transport or goes to a url outside the endpoint.
Unreachable(c) ==
  /\ Len(c.resps) >= 1
  /\ \A i \in 1..Len(c.resps) :
       IsRejected(c.resps[i]) \/ EndpointPath(c.reqs[i].url) = <<>>

\* C2: a single-item lookup on an unreachable server raises a
\* GeoServerResponseError, never returns the empty result, and raises only
\* after the existence probe was issued and reported false.
C2_UnreachableRaisesAfterProbe ==
  (IsDone /\ call.op \in LookupOps /\ Unreachable(call))
  => /\ call.result.kind = "throw"
     /\ call.result.error.name = "GeoServerResponseError"
     /\ Len(call.reqs) = 2 /\ IsProbe(call.reqs[2])
     /\ AboutClient_exists_then(call.resps[2]) = Return(Bool(FALSE))

\* The version request fails: the transport rejects it, the status is not ok,
\* or the body cannot be read or decoded.
VersionRequestFailed(r) ==
  IsRejected(r) \/ ~ok(r) \/ ~r.readable \/ r.fmt # "json"

\* C3: AboutClient.exists never raises; whenever the version request fails it
\* completes with false.
C3_ExistsNeverRaises ==
  (IsDone /\ call.op = "about.exists")
  => /\ call.result.kind = "return"
     /\ call.result.value.t = "boolean"
     /\ (VersionRequestFailed(call.resps[1]) => call.result.value.b = FALSE)

C3_Witness ==
  /\ IsDone /\ call.op = "about.exists"
  /\ IsResponse(call.resps[1]) /\ ~ok(call.resps[1]) /\ ~call.resps[1].readable
  /\ call.result = Return(Bool(FALSE))

EmptyKinds == FalsyKinds \cup {"emptyObject", "emptyArray"}

\* C4 as claimed: exists returns true iff the version request succeeds and its
\* decoded payload is not empty.
C4_ExistsIffNonEmptyPayload ==
  (IsDone /\ call.op = "about.exists")
  => (call.result = Return(Bool(TRUE))
      <=> (~VersionRequestFailed(call.resps[1])
           /\ call.resps[1].payload.kind \notin EmptyKinds))

\* C4 as amended: exists returns true iff the version request succeeds and its
\* decoded payload is truthy (not null, false, 0 or ""), so that an empty
\* object yields true; in every other case it returns false.
C4_ExistsIffTruthyPayload ==
  (IsDone /\ call.op = "about.exists")
  => /\ call.result = Return(Bool(TRUE))
        <=> (~VersionRequestFailed(call.resps[1])
             /\ call.resps[1].payload.kind \notin FalsyKinds)
     /\ call.result \in {Return(Bool(TRUE)), Return(Bool(FALSE))}

C4_Witness ==
  /\ IsDone /\ call.op = "about.exists"
  /\ ~VersionRequestFailed(call.resps[1])
  /\ call.resps[1].payload.kind = "emptyObject"
  /\ call.result = Return(Bool(TRUE))

CreateOps == {"workspaces.create", "namespaces.create",
              "datastores.createGeotiffFromFile", "datastores.createPostgisStore",
              "datastores.createImageMosaicStore", "datastores.createWmsStore",
              "datastores.createWmtsStore", "datastores.createWfsStore",
              "datastores.createGpkgStore"}
DeleteOps == {"workspaces.delete", "namespaces.delete",
              "datastores.deleteDataStore", "datastores.deleteCoverageStore"}
\* The message of a GeoServerResponseError built without one.
GenericMessage == "GeoServer Response Error"
IsResponseError(result) ==
  result.kind = "throw" /\ result.error.name = "GeoServerResponseError"

\* C5: every create operation answered 409 (with a body that can be read) raises a GeoServerResponseError with
\* a message of its own that says the item already exists (not the generic
\* one), and a create the server accepts returns.
C5_ConflictOnCreate ==
  (IsDone /\ call.op \in CreateOps /\ Len(call.resps) = 1 /\ IsResponse(call.resps[1]))
  => /\ (call.resps[1].status = 409 /\ call.resps[1].readable)
          => /\ IsResponseError(call.result)
             /\ call.result.error.message # GenericMessage
     /\ (ok(call.resps[1]) /\ call.resps[1].readable) => call.result.kind = "return"

\* The message each delete of a workspace or a namespace is to raise for a status.
DeleteMessage(op, status) ==
  CASE op = "workspaces.delete" /\ status = 400 ->
         "Workspace or related Namespace is not empty (and recurse not true)"
    [] op = "workspaces.delete" /\ status = 404 -> "Workspace doesn't exist"
    [] op = "namespaces.delete" /\ status = 403 ->
         "Namespace or related Workspace is not empty (and recurse not true)"
    [] op = "namespaces.delete" /\ status = 404 -> "Namespace doesn't exist"
    [] op = "namespaces.delete" /\ status = 405 -> "Can't delete default namespace"
    [] OTHER -> GenericMessage

\* C6: a delete of a workspace or of a namespace that the server refuses (with a
\* body that can be read) raises
\* a GeoServerResponseError whose message is the one of its family for the
\* status (400, 404; 403, 404, 405), the generic message for every other
\* status, and which carries the text of the response.
C6_DeleteClassification ==
  (/\ IsDone /\ call.op \in {"workspaces.delete", "namespaces.delete"}
   /\ IsResponse(call.resps[1]) /\ ~ok(call.resps[1]) /\ call.resps[1].readable)
  => /\ IsResponseError(call.result)
     /\ call.result.error.message = DeleteMessage(call.op, call.resps[1].status)
     /\ call.result.error.geoServerOutput = Str(call.resps[1].text)

DeleteKey(c) ==
  CASE c.op = "workspaces.delete" -> <<"workspaces", c.args.name>>
    [] c.op = "namespaces.delete" -> <<"namespaces", c.args.name>>
    [] c.op = "datastores.deleteDataStore" -> <<"datastores", c.args.name>>
    [] OTHER -> <<"coveragestores", c.args.name>>
MissingMessages == {"Workspace doesn't exist", "Namespace doesn't exist",
                    "Datastore doesn't exist", "CoverageStore doesn't exist"}

\* C7: a delete, in any family, of an item the server does not hold (answered
\* 404 with a body that can be read) raises a GeoServerResponseError with the family's message for a missing
\* item, never the generic one and never a success.
C7_DeleteOfMissingItem ==
  (/\ IsDone /\ call.op \in DeleteOps
   /\ ~ItemPresent(DeleteKey(call))
   /\ IsResponse(call.resps[1]) /\ call.resps[1].status = 404 /\ call.resps[1].readable)
  => /\ IsResponseError(call.result)
     /\ call.result.error.message \in MissingMessages

Count(seq, x) == Cardinality({i \in 1..Len(seq) : seq[i] = x})

\* C8: after create("w1") succeeds, getAll lists w1 exactly once; after
\* delete("w1", true) succeeds, getAll no longer lists it and the listing is
\* the one observed before the create.
C8_WorkspaceRoundTrip ==
  /\ trip.step \in 2..4 => Count(trip.mid, TripWorkspace) = 1
  /\ trip.step = 4 => /\ Count(trip.after, TripWorkspace) = 0
                      /\ trip.after = trip.before

C8_Witness ==
  /\ trip.step = 4
  /\ Count(trip.mid, TripWorkspace) = 1
  /\ Len(trip.mid) = Len(trip.before) + 1

\* C9 as claimed: at most two requests per operation, the second one only the
\* probe of a single-item lookup, and exactly one request for every operation
\* that is not a single-item lookup.
C9_SecondRequestOnlyProbe ==
  /\ Len(call.reqs) <= 2
  /\ IsDone =>
       /\ Len(call.reqs) = 2 => (call.op \in LookupOps /\ IsProbe(call.reqs[2]))
       /\ call.op \notin LookupOps => Len(call.reqs) = 1

\* C9 as amended: at most two requests per operation; a second request is
\* either the probe of a single-item lookup whose first response is not ok, or
\* the PUT of updateProxyBaseUrl after its GET of the settings; every other
\* operation issues exactly one request, except createGeotiffFromFile on a
\* file that cannot be stat-ed, which issues none.
C9_RequestsPerOperation ==
  /\ Len(call.reqs) <= 2
  /\ IsDone =>
       /\ Len(call.reqs) = 2 =>
            \/ /\ call.op \in LookupOps
               /\ IsResponse(call.resps[1]) /\ ~ok(call.resps[1])
               /\ IsProbe(call.reqs[2])
            \/ /\ call.op = "settings.updateProxyBaseUrl"
               /\ IsResponse(call.resps[1]) /\ ok(call.resps[1])
               /\ call.reqs[1].method = "GET" /\ call.reqs[2].method = "PUT"
       /\ call.op \in LookupOps =>
            (Len(call.reqs) = 1 <=> (IsRejected(call.resps[1]) \/ ok(call.resps[1])))
       /\ call.op \notin LookupOps \cup {"settings.updateProxyBaseUrl"} =>
            \/ Len(call.reqs) = 1
            \/ /\ Len(call.reqs) = 0
               /\ call.op = "datastores.createGeotiffFromFile"
               /\ ~FileExists(call.args.filePath)

C9_Witness ==
  /\ IsDone /\ call.op = "settings.updateProxyBaseUrl"
  /\ Len(call.reqs) = 2 /\ call.reqs[2].method = "PUT"
  /\ call.result.kind = "return"

\* base64 of "a:p" and of "a:pw" as indices of its alphabet (64 is the pad).
ExpectedToken(user, password) ==
  CASE user = <<97>> /\ password = <<112>> -> <<24, 19, 41, 48>>
    [] user = <<97>> /\ password = <<112, 119>> -> <<24, 19, 41, 48, 29, 48, 64, 64>>
    [] OTHER -> <<>>

\* C10: every request of every client, the probe of a lookup included, carries
\* in Authorization the value the facade computed at its construction:
\* "Basic " followed by base64(user:password).
C10_EveryRequestCarriesBasicAuth ==
  /\ facade.auth = [scheme |-> "Basic ", token |-> ExpectedToken(ctor.user, ctor.password)]
  /\ \A i \in 1..Len(call.reqs) : call.reqs[i].Authorization = facade.auth
  /\ \A n \in ClientNames : clients[n].auth = facade.auth

C10_Witness ==
  /\ IsDone /\ call.op = "datastores.getStore"
  /\ Len(call.reqs) = 2 /\ IsProbe(call.reqs[2])
  /\ call.reqs[2].Authorization =
       [scheme |-> "Basic ", token |-> <<24, 19, 41, 48, 29, 48, 64, 64>>]

IsPrefix(a, b) == Len(a) <= Len(b) /\ SubSeq(b, 1, Len(a)) = a

\* C11: the facade's url ends with "/": a constructor url that ends with "/"
\* is kept as it is, any other gets exactly one "/" appended; normalising the
\* facade's url again changes nothing, and every request url is the facade's
\* url followed by a path that is not empty.
C11_BaseUrlNormalised ==
  /\ endsWith(facade.url, "/")
  /\ endsWith(ctor.url, "/") => facade.url = ctor.url
  /\ ~endsWith(ctor.url, "/") => facade.url = ctor.url \o <<"/">>
  /\ FacadeUrl(facade.url) = facade.url
  /\ \A i \in 1..Len(call.reqs) :
       IsPrefix(facade.url, call.reqs[i].url) /\ Len(call.reqs[i].url) > Len(facade.url)

C11_Witness ==
  /\ ctor.url = <<"g">> /\ facade.url = <<"g", "/">>
  /\ IsDone /\ Len(call.reqs) = 2
  /\ call.reqs[1].url = <<"g", "/", "workspaces/", "w1", ".json">>

\* Every client holds the facade's url and auth, which are the ones computed
\* from the constructor's arguments.
ContextShared ==
  /\ facade = GeoServerRestClient(ctor.url, ctor.user, ctor.password)
  /\ \A n \in ClientNames : clients[n] = [url |-> facade.url, auth |-> facade.auth]

\* C12: in every state, after any sequence of operations that succeed or fail,
\* the facade holds the url and auth computed from the constructor's arguments
\* and every client holds exactly the facade's two values; no step of any
\* operation changes the facade or a client.
C12_ContextImmutableAndShared ==
  /\ []ContextShared
  /\ [][clients' = clients /\ facade' = facade /\ ctor' = ctor]_vars

C12_Witness ==
  /\ IsDone /\ call.result.kind = "throw" /\ srvItems # {}
  /\ \A n \in ClientNames : clients[n] = [url |-> facade.url, auth |-> facade.auth]

\* The keys of the connection parameters of a request body, in their order.
EntryKeys(body) == [i \in 1..Len(body.entries) |-> body.entries[i].key]
\* The serialized value of the entry of a key: <<>> when the value was dropped.
EntryValue(body, key) ==
  LET i == CHOOSE k \in 1..Len(body.entries) : body.entries[k].key = key
  IN body.entries[i].dollar
PropKeys(body) == [i \in 1..Len(body.props) |-> body.props[i].k]

PostgisKeys == <<"dbtype", "schema", "database", "host", "port", "passwd", "namespace",
                 "user", "Expose primary keys">>

\* C13: the body of createPostgisStore has exactly the 9 connection parameters
\* dbtype, schema, database, host, port, passwd, namespace, user and Expose
\* primary keys, and the value of Expose primary keys is true when exposePk is
\* true and false when exposePk is omitted or false.
C13_PostgisBodyEntries ==
  (call.op = "datastores.createPostgisStore" /\ Len(call.reqs) >= 1)
  => LET body == call.reqs[1].body
     IN /\ body.kind = "json"
        /\ Len(body.entries) = 9
        /\ EntryKeys(body) = PostgisKeys
        /\ EntryValue(body, "Expose primary keys")
             = IF call.args.exposePk = "true" THEN <<"true">> ELSE <<"false">>

C13_Witness ==
  /\ call.op = "datastores.createPostgisStore" /\ IsDone
  /\ call.args.exposePk = "undefined"
  /\ EntryValue(call.reqs[1].body, "Expose primary keys") = <<"false">>

StructuredCreateOps == {"datastores.createPostgisStore", "datastores.createWfsStore",
                        "datastores.createWmsStore", "datastores.createWmtsStore",
                        "datastores.createGpkgStore"}
WfsPoolingKey == "WFSDataStoreFactory:USE_HTTP_CONNECTION_POOLING"
\* The keys each structured body is to hold: its properties and its entries.
RequiredProps(op) ==
  CASE op = "datastores.createPostgisStore" -> <<"name", "type", "enabled", "workspace.name">>
    [] op \in {"datastores.createWmsStore", "datastores.createWmtsStore"} ->
         <<"name", "type", "capabilitiesURL">>
    [] OTHER -> <<"name", "type">>
RequiredEntries(op) ==
  CASE op = "datastores.createPostgisStore" -> PostgisKeys
    [] op = "datastores.createWfsStore" ->
         <<"WFSDataStoreFactory:GET_CAPABILITIES_URL", "namespace", WfsPoolingKey>>
    [] op = "datastores.createGpkgStore" -> <<"database", "dbtype">>
    [] OTHER -> <<>>

\* C14: the serialized body of every structured store creation (PostGIS, WFS,
\* WMS, WMTS, GeoPackage), called with its required arguments and with or
\* without its optional one, holds every required property and entry, each
\* entry with its value; the WFS body's USE_HTTP_CONNECTION_POOLING is true when
\* useHttpConnectionPooling is omitted and the argument otherwise.
C14_StructuredBodiesComplete ==
  (call.op \in StructuredCreateOps /\ Len(call.reqs) >= 1)
  => LET body == call.reqs[1].body
     IN /\ body.kind = "json"
        /\ PropKeys(body) = RequiredProps(call.op)
        /\ EntryKeys(body) = RequiredEntries(call.op)
        /\ \A i \in 1..Len(body.entries) : Len(body.entries[i].dollar) = 1
        /\ call.op = "datastores.createWfsStore" =>
             EntryValue(body, WfsPoolingKey)
               = IF call.args.useHttpConnectionPooling = "undefined" THEN <<"true">>
                 ELSE <<call.args.useHttpConnectionPooling>>

C14_Witness ==
  /\ call.op = "datastores.createWfsStore" /\ IsDone
  /\ call.args.useHttpConnectionPooling = "undefined"
  /\ EntryValue(call.reqs[1].body, WfsPoolingKey) = <<"true">>

UploadOps == {"datastores.createGeotiffFromFile", "datastores.createImageMosaicStore"}

\* C15: when createGeotiffFromFile has streamed the file as the body of its
\* request, the Content-Length header it sent is the number of bytes streamed,
\* whether or not the file changed after its size was read.
C15_ContentLengthIsStreamedSize ==
  (/\ call.op = "datastores.createGeotiffFromFile" /\ Len(call.reqs) = 1
   /\ Len(call.resps) = 1 /\ fs.readStream = "closed")
  => call.reqs[1].ContentLength = ToString(fs.streamed)

\* C16: when createGeotiffFromFile or createImageMosaicStore has ended, with a
\* result or with an error, after a response or after a failure of the
\* transport, the read stream it opened is closed.
C16_ReadStreamClosedOnEveryExit ==
  (IsDone /\ call.op \in UploadOps /\ Len(call.reqs) = 1)
  => fs.readStream = "closed"

\* The responses of a call that are not ok, the answer to a lookup's probe aside.
NonOk(c) ==
  {i \in 1..Len(c.resps) :
     /\ IsResponse(c.resps[i]) /\ ~ok(c.resps[i])
     /\ ~(c.op \in LookupOps /\ i = 2)}

\* C17: every operation but the probe itself that ends with an error after a
\* request raises a GeoServerResponseError with a message that is not empty, and after a
\* response that is not ok it raises one that carries the text of that
\* response; the only value returned after such a response is the undefined of
\* a single-item lookup whose probe succeeded.
C17_FailuresCarryMessageAndText ==
  (IsDone /\ call.op # "about.exists")
  => /\ (call.result.kind = "throw" /\ Len(call.resps) >= 1) =>
          (IsResponseError(call.result) /\ call.result.error.message # "")
     /\ NonOk(call) # {} =>
          \/ /\ call.op \in LookupOps /\ Len(call.resps) = 2
             /\ AboutClient_exists_then(call.resps[2]) = Return(Bool(TRUE))
             /\ call.result = Return(Undefined)
          \/ /\ IsResponseError(call.result)
             /\ \E i \in NonOk(call) :
                  call.result.error.geoServerOutput = Str(call.resps[i].text)

\* The argument of updateContactInformation that belongs under each key.
ContactArgument(k) ==
  CASE k = "address" -> "address" [] k = "addressCity" -> "city"
    [] k = "addressCountry" -> "country" [] k = "addressPostalCode" -> "postalCode"
    [] k = "addressState" -> "state" [] k = "contactEmail" -> "email"
    [] k = "contactOrganization" -> "organization" [] k = "contactPerson" -> "contactPerson"
    [] OTHER -> "phoneNumber"

\* C20: when updateContactInformation has succeeded, the server's contact holds
\* each of the nine arguments under its own key (address under address, state
\* under addressState, ...), and a getContactInformation that succeeds returns
\* the server's contact as it is.
C20_ContactRoundTrip ==
  /\ (IsDone /\ call.op = "settings.updateContactInformation" /\ call.result.kind = "return")
       => \A k \in ContactKeys : srvSettings.contact[k] = call.args[ContactArgument(k)]
  /\ (IsDone /\ call.op = "settings.getContactInformation" /\ call.result.kind = "return")
       => call.result.value = Obj([kind |-> "contact", contact |-> srvSettings.contact])

C20_Witness ==
  /\ IsDone /\ call.op = "settings.getContactInformation" /\ call.result.kind = "return"
  /\ call.result.value.p.contact["address"] = "a2"
  /\ call.result.value.p.contact["addressState"] = "s"
  /\ call.result.value.p.contact["addressCity"] = "c"

\* C18: when the server accepts a creation and its response is read,
\* WorkspaceClient.create(name) returns name and NamespaceClient.create(prefix,
\* uri) returns prefix, the name of the item the server now holds.
C18_CreateReturnsName ==
  (/\ IsDone /\ call.op \in {"workspaces.create", "namespaces.create"}
   /\ IsResponse(call.resps[1]) /\ ok(call.resps[1]) /\ call.resps[1].readable)
  => /\ call.result = Return(Str(<<call.args.name>>))
     /\ <<IF call.op = "workspaces.create" THEN "workspaces" ELSE "namespaces",
          call.args.name>> \in srvItems

C18_Witness ==
  /\ IsDone /\ call.op = "workspaces.create" /\ call.args.name = "w2"
  /\ call.result = Return(Str(<<"w2">>))
  /\ <<"workspaces", "w1">> \in srvItems

VoidOps == {"workspaces.delete", "settings.updateContactInformation",
            "datastores.createWfsStore", "datastores.createGpkgStore",
            "datastores.createWmsStore"}

\* C19: WorkspaceClient.delete, updateContactInformation, createWfsStore,
\* createGpkgStore and createWmsStore return the boolean true whenever the
\* server answers with an ok status.
C19_MutationsReturnTrue ==
  (/\ IsDone /\ call.op \in VoidOps
   /\ IsResponse(call.resps[1]) /\ ok(call.resps[1]))
  => call.result = Return(Bool(TRUE))

(***************************************************************************)
(* Repeated invocations: the caller invokes operations again and again on  *)
(* one facade, with the same arguments or others, while the server, the    *)
(* network and the local file change; the first request of every           *)
(* invocation that ended is remembered with the invocation's arguments.    *)
(***************************************************************************)
RepeatInvoke ==
  \/ \E name \in WsNames : WorkspaceClient_create(name)
  \/ WorkspaceClient_get
  \/ DatastoreClient_createGeotiffFromFile

\* The caller takes the result; the invocation's first request is remembered.
RepeatSettle ==
  /\ call.pc = "done"
  /\ call' = Idle
  /\ fs' = [fs EXCEPT !.readStream = "none", !.streamed = 0]
  /\ seen' = seen \cup (IF call.reqs = <<>> THEN {}
                        ELSE {[op |-> call.op, args |-> call.args, req |-> call.reqs[1]]})
  /\ UNCHANGED <<ctor, facade, clients, net, srvItems, srvSettings, trip, other>>

NextRepeat == RepeatInvoke \/ Receive \/ RepeatSettle \/ NetChange \/ FileChange

SpecRepeat == Init /\ [][NextRepeat]_vars

\* The first requests issued so far: those of the invocations that ended and
\* that of the invocation in flight.
Issued ==
  seen \cup (IF call.reqs = <<>> THEN {}
             ELSE {[op |-> call.op, args |-> call.args, req |-> call.reqs[1]]})

OtherStart(op, args, req) ==
  /\ other.pc = "idle"
  /\ other' = [op |-> op, args |-> args, pc |-> "await",
               reqs |-> <<req>>, resps |-> <<>>, result |-> NoResult]
  /\ UNCHANGED <<ctor, facade, clients, call, net, srvItems, srvSettings, trip, fs, seen>>

OtherNamespaceClient_get ==
  \E name \in NsNames :
    OtherStart("namespaces.get", [name |-> name],
               NamespaceClient_get_fetch(clients["namespaces"], name))

\* The settings object the second caller passes: another charset.
OtherSettingsClient_updateSettings ==
  LET settings == [kind |-> "settings", global |-> TRUE, settings |-> TRUE,
                   proxyBaseUrl |-> "p0", charset |-> "c1"]
  IN OtherStart("settings.updateSettings", [settings |-> settings],
                SettingsClient_updateSettings_fetch(clients["settings"], settings))

\* The transport settles the fetch of the second operation.
OtherReceive ==
  /\ other.pc = "await"
  /\ \E a \in Transport(Last(other.reqs)) :
       LET step == Resume(other, a.resp)
           resps == Append(other.resps, a.resp)
       IN /\ other' = IF step.next = "fetch"
                      THEN [other EXCEPT !.resps = resps, !.reqs = Append(@, step.req)]
                      ELSE [other EXCEPT !.resps = resps, !.pc = "done",
                                         !.result = step.outcome]
          /\ srvItems' = a.items
          /\ srvSettings' = a.settings
  /\ UNCHANGED <<ctor, facade, clients, call, net, trip, fs, seen>>

OtherSettle ==
  /\ other.pc = "done"
  /\ other' = Idle
  /\ UNCHANGED <<ctor, facade, clients, call, net, srvItems, srvSettings, trip, fs, seen>>

\* The server holds one of the namespaces the lookups ask for, or none.
ConcurrentStarts == {{}, {<<"namespaces", "n1">>}}

InitConcurrent ==
  /\ ctor \in {c \in CtorInputs : c.password = <<112>>}
  /\ facade = GeoServerRestClient(ctor.url, ctor.user, ctor.password)
  /\ clients = [k \in ClientNames |-> NewClient(facade.url, facade.auth)]
  /\ call = Idle
  /\ net = "up"
  /\ srvItems \in ConcurrentStarts
  /\ srvSettings = [proxyBaseUrl |-> "p0", charset |-> "c0", contact |-> FirstContact]
  /\ trip = TripOff
  /\ fs = NoStream
  /\ seen = {}
  /\ other = Idle

ConcurrentInvoke ==
  \/ NamespaceClient_get
  \/ SettingsClient_updateProxyBaseUrl
  \/ OtherNamespaceClient_get
  \/ OtherSettingsClient_updateSettings

NextConcurrent ==
  ConcurrentInvoke \/ Receive \/ OtherReceive \/ Settle \/ OtherSettle \/ NetChange

SpecConcurrent == InitConcurrent /\ [][NextConcurrent]_vars

\* The probe reported true: its answer came whole and its payload is truthy.
ProbeTrue(r) == ~VersionRequestFailed(r) /\ r.payload.kind \notin FalsyKinds

\* The requests and the result of a lookup are those its own arguments and the
\* responses to its own requests determine.
OwnLookup(c) ==
  /\ c.reqs[1] = NamespaceClient_get_fetch(clients["namespaces"], c.args.name)
  /\ Len(c.reqs) = 2 => (IsProbe(c.reqs[2]) /\ IsResponse(c.resps[1]) /\ ~ok(c.resps[1]))
  /\ \A i \in 1..Len(c.resps) :
       (IsResponse(c.resps[i]) /\ ~ok(c.resps[i]))
         => c.resps[i].text = ErrText(c.reqs[i], c.resps[i].status)
  /\ c.pc = "done" =>
       /\ Len(c.resps) = Len(c.reqs)
       /\ IsRejected(c.resps[1]) => c.result = Throw(FetchError("network"))
       /\ (IsResponse(c.resps[1]) /\ ok(c.resps[1]))
            => (Len(c.reqs) = 1 /\ c.result = response_json(c.resps[1]))
       /\ Len(c.resps) = 2 =>
            /\ c.result = Return(Undefined) <=> ProbeTrue(c.resps[2])
            /\ (~ProbeTrue(c.resps[2]) /\ c.resps[1].readable)
                 => c.result = Throw(GeoServerResponseError(null, Str(c.resps[1].text)))

\* C22: of two operations in flight together on one facade, whatever the order
\* in which their fetches settle, each lookup issues the requests of its own
\* arguments, receives the responses to its own requests, and ends with the
\* result its own responses determine: it returns undefined exactly when its
\* own probe reported true.
C22_NoInterference ==
  \A c \in {call, other} : (c.op = "namespaces.get" /\ c.pc # "idle") => OwnLookup(c)

\* Two lookups of the same item are in flight together: one has ended with
\* undefined on its own probe while the probe of the other is still in flight.
C22_Witness ==
  /\ call.op = "namespaces.get" /\ other.op = "namespaces.get"
  /\ call.args = other.args
  /\ call.pc = "done" /\ Len(call.resps) = 2 /\ call.result = Return(Undefined)
  /\ other.pc = "await" /\ Len(other.reqs) = 2

\* The operations of the AboutClient, whose own request is the version request.
AboutOps == {"about.getVersion", "about.exists"}

C24_EmptyMeansAbsent ==
  (IsDone /\ call.op \in LookupOps /\ call.result = Return(Undefined))
  => ~ItemPresent(LookupKey(call))

\* C25: a single-item lookup whose probe reported false raises a
\* GeoServerResponseError that carries the response text of the item GET (or
\* nothing where that text cannot be read), never the text or the error of the
\* version request.
C25_FailureCarriesTextOfItemGet ==
  (IsDone /\ call.op \in LookupOps /\ Len(call.resps) = 2 /\ ~ProbeTrue(call.resps[2]))
  => /\ IsResponseError(call.result)
     /\ call.result.error.geoServerOutput
          = IF call.resps[1].readable THEN Str(call.resps[1].text) ELSE Undefined

\* The settings object the server answered, delivered whole.
SettingsDelivered(r) ==
  IsResponse(r) /\ ok(r) /\ r.readable /\ r.fmt = "json" /\ r.payload.kind = "settings"

\* C26: updateProxyBaseUrl, when the settings object it fetched lacks 'global'
\* or its 'global' lacks 'settings', returns false, raises nothing and issues no
\* PUT to settings.
C26_MalformedSettingsReturnFalse ==
  (/\ IsDone /\ call.op = "settings.updateProxyBaseUrl"
   /\ Len(call.resps) >= 1 /\ SettingsDelivered(call.resps[1])
   /\ ~(call.resps[1].payload.global /\ call.resps[1].payload.settings))
  => (call.result = Return(Bool(FALSE)) /\ Len(call.reqs) = 1)

\* C28: getGeoServerResponseText never raises, so that an operation that handles
\* a response that is not ok always raises a GeoServerResponseError: one that
\* carries the response text where the body can be read, and nothing
\* (undefined) where reading the body fails.
C28_ResponseTextNeverRaises ==
  (/\ IsDone /\ call.op \notin LookupOps \cup {"about.exists"}
   /\ Len(call.resps) >= 1 /\ IsResponse(Last(call.resps)) /\ ~ok(Last(call.resps)))
  => /\ IsResponseError(call.result)
     /\ call.result.error.geoServerOutput
          = IF Last(call.resps).readable THEN Str(Last(call.resps).text) ELSE Undefined

\* C27: the PUT that ends updateProxyBaseUrl changes the proxy base URL only:
\* every other setting of the server keeps the value it had immediately before
\* that PUT, also when another operation on the settings was settled between
\* the GET of updateProxyBaseUrl and its PUT.
C27_OnlyProxyBaseUrlChanges ==
  [][(/\ call.op = "settings.updateProxyBaseUrl" /\ call.pc = "await"
      /\ Len(call.reqs) = 2
      /\ call'.pc = "done" /\ call'.result.kind = "return")
     => /\ srvSettings'.charset = srvSettings.charset
        /\ srvSettings'.contact = srvSettings.contact
        /\ srvSettings'.proxyBaseUrl = call.args.proxyBaseUrl]_vars
=============================================================================
